---- MODULE Spec2Model ----
(***************************************************************************)
(* Room session engine of the watch-together server (latest revision,     *)
(* src/unnamed/part_001).  One action per socket.io event handler, one    *)
(* for the skip-vote expiry timer.  Room objects live in a heap because   *)
(* the expiry closure keeps the room OBJECT (and the room id) it was       *)
(* scheduled for, whatever the registry does to that id afterwards.       *)
(***************************************************************************)
EXTENDS Integers, Sequences, FiniteSets, TLC

\* ---------------------------------------------------------------- bounds
\* socket ids in the order the transport hands them out
SocketIds == <<"s1", "s2", "s3">>
RoomIds == {"r1", "r2"}
VideoIds == {"v1", "v2"}
Nicknames == {"n1"}
\* "none" stands for an absent (undefined) password field
NoPassword == "none"
CreatePasswords == {NoPassword, "pw"}
JoinPasswords == {NoPassword, "pw", "bad"}
TimeInputs == {-5, 5}
Directions == {"forward", "backward"}
\* create_room calls accepted over a run (room objects ever allocated)
MaxRooms == 3
\* expiry timers pending at once
MaxTimers == 2
\* add_recommend_video calls accepted per room object
MaxQueue == 2
\* largest currentTime a forward skip may start from
MaxTime == 0

\* ------------------------------------------------------- program constants
SkipSeconds == 10
Null == "null"

VARIABLES
    rooms,      \* the registry Map, as its entries in insertion order
    heap,       \* room objects, by allocation number
    history,    \* per room object: ids ever enqueued / ever dequeued
    sockets,    \* connected sockets
    nextSocket, \* index of the next socket id to hand out
    group,      \* socket.io broadcast groups: room id -> member sockets
    timers,     \* pending expiry timers, oldest first (equal delays)
    out,        \* events emitted by the last handler, in order
    last        \* the event the last handler was run for

vars == <<rooms, heap, history, sockets, nextSocket, group, timers, out, last>>

\* ---------------------------------------------------------------- helpers
Max(a, b) == IF a >= b THEN a ELSE b

\* sequence s without its i-th element
RemoveAt(s, i) == [j \in 1..(Len(s) - 1) |-> IF j < i THEN s[j] ELSE s[j + 1]]

\* position of key k in a sequence of records with field id (0: absent)
IndexOf(s, k) ==
    IF \E i \in 1..Len(s) : s[i].id = k
    THEN CHOOSE i \in 1..Len(s) : s[i].id = k
    ELSE 0

\* Map.prototype.set: an existing key keeps its place, a new one goes last
MapSet(s, e) ==
    IF IndexOf(s, e.id) = 0 THEN Append(s, e)
    ELSE [s EXCEPT ![IndexOf(s, e.id)] = e]

\* a delete that forgets to delete
MapDeleteNothing(s, k) == s

\* Map.prototype.delete
MapDelete(s, k) == IF IndexOf(s, k) = 0 THEN s ELSE RemoveAt(s, IndexOf(s, k))

\* Map.prototype.has
MapHas(s, k) == IndexOf(s, k) # 0

\* rooms.get(roomId): the room object's heap number, 0 for undefined
RoomsGet(r) == IF MapHas(rooms, r) THEN rooms[IndexOf(rooms, r)].obj ELSE 0

\* Array.from(room.users.values())
UserList(room) == [i \in 1..Len(room.users) |-> room.users[i].nick]

\* room.users.get(id) || fallback
NicknameOf(room, s, fallback) ==
    IF MapHas(room.users, s) THEN room.users[IndexOf(room.users, s)].nick
    ELSE fallback

\* password || null
PasswordOrNull(p) == IF p = NoPassword THEN Null ELSE p

\* !!room.password
IsLocked(room) == room.password # Null

ZeroCounts == [forward |-> 0, backward |-> 0]

\* the object literal of create_room
NewRoom(s, v, p) ==
    [hostId |-> s, videoId |-> v, currentTime |-> 0, isPlaying |-> FALSE,
     skipCounts |-> ZeroCounts, skipUsers |-> {}, users |-> <<>>,
     password |-> PasswordOrNull(p), boreVotes |-> {}, recommendQueue |-> <<>>]

\* what is left of a room object nothing refers to any more
Garbage == NewRoom("-", "-", NoPassword)

\* garbage collection: a room object that neither the registry rs nor a
\* pending timer of ts refers to is no longer part of the program's state
Collect(h, rs, ts) ==
    [i \in 1..Len(h) |->
        IF \/ \E k \in 1..Len(rs) : rs[k].obj = i
           \/ \E k \in 1..Len(ts) : ts[k].room = i
        THEN h[i] ELSE Garbage]

\* the queue history of the room objects still referred to
CollectHistory(hs, rs, ts) ==
    [i \in 1..Len(hs) |->
        IF \/ \E k \in 1..Len(rs) : rs[k].obj = i
           \/ \E k \in 1..Len(ts) : ts[k].room = i
        THEN hs[i] ELSE [enq |-> <<>>, deq |-> <<>>]]

\* one emitted event: its name, the sockets it is delivered to, its payload
Emit(name, to, data) == [ev |-> name, to |-> to, data |-> data]

Event(type, s, r, arg) == [type |-> type, sock |-> s, roomId |-> r, arg |-> arg]

\* a host test that lets every socket through
IsHostAnyone(room, s) == TRUE

\* socket.id === room.hostId
IsHost(room, s) == s = room.hostId

\* -------------------------------------------------------------------- Init
Init ==
    /\ rooms = <<>>
    /\ heap = <<>>
    /\ history = <<>>
    /\ sockets = {}
    /\ nextSocket = 1
    /\ group = [r \in RoomIds |-> {}]
    /\ timers = <<>>
    /\ out = <<>>
    /\ last = Event("listen", "-", "-", <<>>)

\* io.on("connection"): a new socket with a fresh id
Connection ==
    /\ nextSocket <= Len(SocketIds)
    /\ sockets' = sockets \cup {SocketIds[nextSocket]}
    /\ nextSocket' = nextSocket + 1
    /\ out' = <<>>
    /\ last' = Event("connection", SocketIds[nextSocket], "-", <<>>)
    /\ UNCHANGED <<rooms, heap, history, group, timers>>

\* socket.on("create_room")
CreateRoom(s, r, v, p) ==
    /\ Len(heap) < MaxRooms
    /\ rooms' = MapSet(rooms, [id |-> r, obj |-> Len(heap) + 1])
    /\ heap' = Collect(Append(heap, NewRoom(s, v, p)), rooms', timers)
    /\ history' = CollectHistory(Append(history, [enq |-> <<>>, deq |-> <<>>]),
                                 rooms', timers)
    /\ group' = [group EXCEPT ![r] = @ \cup {s}]
    /\ out' = <<Emit("room_created", {s}, <<r>>)>>
    /\ last' = Event("create_room", s, r, <<v, p>>)
    /\ UNCHANGED <<sockets, nextSocket, timers>>

\* a password test that refuses nobody
WrongPasswordNever(room, s, p) == FALSE

\* the password test of join_room; TRUE when the join is refused
WrongPassword(room, s, p) ==
    /\ s # room.hostId
    /\ room.password # Null
    /\ p # room.password

\* socket.on("join_room")
JoinRoom(s, r, n, p) ==
    LET o == RoomsGet(r) IN
    /\ last' = Event("join_room", s, r, <<n, p>>)
    /\ IF o = 0
       THEN /\ out' = <<Emit("error", {s}, <<"not_found">>)>>
            /\ UNCHANGED <<rooms, heap, history, sockets, nextSocket, group, timers>>
       ELSE IF WrongPassword(heap[o], s, p)
       THEN /\ out' = <<Emit("error", {s}, <<"wrong_password">>)>>
            /\ UNCHANGED <<rooms, heap, history, sockets, nextSocket, group, timers>>
       ELSE LET users2 == MapSet(heap[o].users, [id |-> s, nick |-> n])
                room2 == [heap[o] EXCEPT !.users = users2]
                group2 == [group EXCEPT ![r] = @ \cup {s}]
            IN
            /\ heap' = [heap EXCEPT ![o] = room2]
            /\ group' = group2
            /\ out' = <<Emit("room_data", {s},
                             <<room2.videoId, IsHost(room2, s), room2.currentTime,
                               room2.isPlaying, room2.skipCounts, Len(users2),
                               UserList(room2), IsLocked(room2),
                               room2.recommendQueue>>),
                        Emit("user_list_update", group2[r], <<UserList(room2)>>)>>
            /\ UNCHANGED <<rooms, history, sockets, nextSocket, timers>>

\* socket.on("get_room_info")
GetRoomInfo(s, r) ==
    LET o == RoomsGet(r) IN
    /\ last' = Event("get_room_info", s, r, <<>>)
    /\ out' = IF o = 0 THEN <<Emit("error", {s}, <<"not_found">>)>>
              ELSE <<Emit("room_info", {s}, <<IsLocked(heap[o])>>)>>
    /\ UNCHANGED <<rooms, heap, history, sockets, nextSocket, group, timers>>

\* Array.prototype.reverse
Reverse(s) == [i \in 1..Len(s) |-> s[Len(s) + 1 - i]]

\* Array.prototype.slice(begin, end), negative indices counted from the end
Slice(s, begin, end) ==
    LET n == Len(s)
        clamp(k) == IF k < 0 THEN Max(n + k, 0) ELSE IF k > n THEN n ELSE k
        b == clamp(begin)
        e == clamp(end)
    IN IF b >= e THEN <<>> ELSE SubSeq(s, b + 1, e)

PageSize == 10
Unknown == "unknown"

\* the room_list payload of get_room_list
RoomList(page) ==
    LET roomEntries == Reverse(rooms)
        paginated == Slice(roomEntries, (page - 1) * PageSize, page * PageSize)
    IN [rooms |-> [i \in 1..Len(paginated) |->
                     [roomId |-> paginated[i].id,
                      displayName |->
                          <<NicknameOf(heap[paginated[i].obj],
                                       heap[paginated[i].obj].hostId, Unknown),
                            paginated[i].id>>,
                      isLocked |-> IsLocked(heap[paginated[i].obj])]],
        hasNextPage |-> page * PageSize < Len(rooms)]

\* socket.on("get_room_list")
GetRoomList(s, page) ==
    /\ last' = Event("get_room_list", s, "-", <<page>>)
    /\ out' = <<Emit("room_list", {s}, <<RoomList(page)>>)>>
    /\ UNCHANGED <<rooms, heap, history, sockets, nextSocket, group, timers>>

\* socket.on("host_current_time_update")
HostCurrentTimeUpdate(s, r, t) ==
    LET o == RoomsGet(r) IN
    /\ last' = Event("host_current_time_update", s, r, <<t>>)
    /\ out' = <<>>
    /\ IF o = 0 \/ ~IsHost(heap[o], s)
       THEN UNCHANGED heap
       ELSE heap' = [heap EXCEPT ![o].currentTime = t]
    /\ UNCHANGED <<rooms, history, sockets, nextSocket, group, timers>>

\* socket.on("video_play")
VideoPlay(s, r) ==
    LET o == RoomsGet(r) IN
    /\ last' = Event("video_play", s, r, <<>>)
    /\ IF o = 0 \/ ~IsHost(heap[o], s)
       THEN out' = <<>> /\ UNCHANGED heap
       ELSE /\ heap' = [heap EXCEPT ![o].isPlaying = TRUE]
            /\ out' = <<Emit("video_play", group[r] \ {s}, <<>>)>>
    /\ UNCHANGED <<rooms, history, sockets, nextSocket, group, timers>>

\* socket.on("video_pause")
VideoPause(s, r) ==
    LET o == RoomsGet(r) IN
    /\ last' = Event("video_pause", s, r, <<>>)
    /\ IF o = 0 \/ ~IsHost(heap[o], s)
       THEN out' = <<>> /\ UNCHANGED heap
       ELSE /\ heap' = [heap EXCEPT ![o].isPlaying = FALSE]
            /\ out' = <<Emit("video_pause", group[r] \ {s}, <<>>)>>
    /\ UNCHANGED <<rooms, history, sockets, nextSocket, group, timers>>

\* socket.on("video_seek")
VideoSeek(s, r, t) ==
    LET o == RoomsGet(r) IN
    /\ last' = Event("video_seek", s, r, <<t>>)
    /\ IF o = 0 \/ ~IsHost(heap[o], s)
       THEN out' = <<>> /\ UNCHANGED heap
       ELSE /\ heap' = [heap EXCEPT ![o].currentTime = t]
            /\ out' = <<Emit("video_seek", group[r] \ {s}, <<t>>)>>
    /\ UNCHANGED <<rooms, history, sockets, nextSocket, group, timers>>

\* the pending timers once the skip-vote state of room object o was reset:
\* the votes they belong to are gone (live is a history flag of the model,
\* the program keeps no such mark)
Cleared(ts, o) ==
    [i \in 1..Len(ts) |->
        IF ts[i].room = o THEN [ts[i] EXCEPT !.live = FALSE] ELSE ts[i]]

\* socket.on("change_video")
ChangeVideo(s, r, v) ==
    LET o == RoomsGet(r) IN
    /\ last' = Event("change_video", s, r, <<v>>)
    /\ IF o = 0 \/ ~IsHost(heap[o], s)
       THEN out' = <<>> /\ UNCHANGED <<heap, timers>>
       ELSE /\ heap' = [heap EXCEPT ![o] =
                          [@ EXCEPT !.videoId = v, !.currentTime = 0,
                                    !.isPlaying = TRUE,
                                    !.skipCounts = ZeroCounts,
                                    !.skipUsers = {}]]
            /\ timers' = Cleared(timers, o)
            /\ out' = <<Emit("video_changed", group[r],
                             <<v, 0, TRUE, ZeroCounts>>)>>
    /\ UNCHANGED <<rooms, history, sockets, nextSocket, group>>

\* socket.on("add_recommend_video")
AddRecommendVideo(s, r, v) ==
    LET o == RoomsGet(r) IN
    /\ last' = Event("add_recommend_video", s, r, <<v>>)
    /\ IF o = 0
       THEN out' = <<>> /\ UNCHANGED <<heap, history>>
       ELSE /\ Len(history[o].enq) < MaxQueue
            /\ heap' = [heap EXCEPT ![o].recommendQueue = Append(@, v)]
            /\ history' = [history EXCEPT ![o].enq = Append(@, v)]
            /\ out' = <<Emit("recommend_queue_updated", group[r],
                             <<Append(heap[o].recommendQueue, v)>>)>>
    /\ UNCHANGED <<rooms, sockets, nextSocket, group, timers>>

\* pop in place of shift: the newest element is taken
ShiftNewest(q) == [taken |-> q[Len(q)], left |-> SubSeq(q, 1, Len(q) - 1)]

\* Array.prototype.shift: the element taken and the array left
Shift(q) == [taken |-> Head(q), left |-> Tail(q)]

\* the branch video_ended and a bore-vote quorum share: play the next
\* recommended video, or stop when there is none
AutoAdvance(room) ==
    IF Len(room.recommendQueue) > 0
    THEN [room EXCEPT !.videoId = Shift(room.recommendQueue).taken,
                      !.recommendQueue = Shift(room.recommendQueue).left,
                      !.currentTime = 0,
                      !.isPlaying = TRUE]
    ELSE [room EXCEPT !.isPlaying = FALSE]

\* what that branch emits
AutoAdvanceEvents(room, to) ==
    IF Len(room.recommendQueue) > 0
    THEN <<Emit("video_changed", to,
                <<Shift(room.recommendQueue).taken, 0, TRUE, ZeroCounts>>),
           Emit("recommend_queue_updated", to,
                <<Shift(room.recommendQueue).left>>)>>
    ELSE <<>>

\* the ids taken from the queue so far, after that branch ran on room
Dequeued(h, room) ==
    IF Len(room.recommendQueue) > 0
    THEN [h EXCEPT !.deq = Append(@, Shift(room.recommendQueue).taken)]
    ELSE h

\* socket.on("video_ended")
VideoEnded(s, r) ==
    LET o == RoomsGet(r) IN
    /\ last' = Event("video_ended", s, r, <<>>)
    /\ IF o = 0 \/ ~IsHost(heap[o], s)
       THEN out' = <<>> /\ UNCHANGED <<heap, history>>
       ELSE /\ heap' = [heap EXCEPT ![o] =
                          [AutoAdvance(heap[o]) EXCEPT !.boreVotes = {}]]
            /\ history' = [history EXCEPT ![o] = Dequeued(@, heap[o])]
            /\ out' = AutoAdvanceEvents(heap[o], group[r])
                      \o <<Emit("bore_vote_update", group[r], <<0>>)>>
    /\ UNCHANGED <<rooms, sockets, nextSocket, group, timers>>

\* the comparison of skip_request used for bore votes
BoreQuorumLoose(votes, totalUsers) == 2 * votes >= totalUsers

\* room.boreVotes.size > totalUsers / 2
BoreQuorum(votes, totalUsers) == 2 * votes > totalUsers

\* socket.on("bore_vote")
BoreVote(s, r) ==
    LET o == RoomsGet(r) IN
    /\ last' = Event("bore_vote", s, r, <<>>)
    /\ IF o = 0 \/ s \in heap[o].boreVotes
       THEN out' = <<>> /\ UNCHANGED <<heap, history>>
       ELSE LET room == [heap[o] EXCEPT !.boreVotes = @ \cup {s}]
                size == Cardinality(room.boreVotes)
            IN IF BoreQuorum(size, Len(room.users))
               THEN /\ heap' = [heap EXCEPT ![o] =
                                  [AutoAdvance(room) EXCEPT !.boreVotes = {}]]
                    /\ history' = [history EXCEPT ![o] = Dequeued(@, room)]
                    /\ out' = <<Emit("bore_vote_update", group[r], <<size>>)>>
                              \o AutoAdvanceEvents(room, group[r])
                              \o <<Emit("bore_vote_update", group[r], <<0>>)>>
               ELSE /\ heap' = [heap EXCEPT ![o] = room]
                    /\ out' = <<Emit("bore_vote_update", group[r], <<size>>)>>
                    /\ UNCHANGED history
    /\ UNCHANGED <<rooms, sockets, nextSocket, group, timers>>

\* the strict comparison of bore_vote used for skip votes
SkipQuorumStrict(count, roomSize) == 2 * count > roomSize

\* room.skipCounts[direction] >= roomSize / 2
SkipQuorum(count, roomSize) == 2 * count >= roomSize

\* Math.max(room.currentTime + skipSeconds, 0)
SkipTarget(currentTime, d) ==
    Max(currentTime + (IF d = "forward" THEN SkipSeconds ELSE -SkipSeconds), 0)

\* the room once the quorum branch of skip_request ran
SkipReset(room, d) ==
    [room EXCEPT !.currentTime = SkipTarget(room.currentTime, d),
                 !.skipCounts = ZeroCounts,
                 !.skipUsers = {}]

\* the duplicate test of skip_request
AlreadySkipping(room, s) == s \in room.skipUsers

\* socket.on("skip_request"); the setTimeout it ends with is the timer added
SkipRequest(s, r, d) ==
    LET o == RoomsGet(r) IN
    /\ last' = Event("skip_request", s, r, <<d>>)
    /\ IF o = 0 \/ AlreadySkipping(heap[o], s)
       THEN out' = <<>> /\ UNCHANGED <<heap, timers>>
       ELSE LET room == [heap[o] EXCEPT !.skipUsers = @ \cup {s},
                                        !.skipCounts[d] = @ + 1]
                quorum == SkipQuorum(room.skipCounts[d], Len(room.users))
            IN
            /\ Len(timers) < MaxTimers
            /\ quorum /\ d = "forward" => room.currentTime <= MaxTime
            /\ IF quorum
               THEN /\ heap' = [heap EXCEPT ![o] = SkipReset(room, d)]
                    /\ out' = <<Emit("video_seek", group[r],
                                     <<SkipTarget(room.currentTime, d)>>),
                                Emit("skip_counts_update", group[r],
                                     <<ZeroCounts>>)>>
               ELSE /\ heap' = [heap EXCEPT ![o] = room]
                    /\ out' = <<Emit("skip_counts_update", group[r],
                                     <<room.skipCounts>>)>>
            /\ timers' = Append(IF quorum THEN Cleared(timers, o) ELSE timers,
                                [room |-> o, roomId |-> r, sock |-> s,
                                 dir |-> d, live |-> ~quorum])
    /\ UNCHANGED <<rooms, history, sockets, nextSocket, group>>

\* an expiry that takes the count back and leaves the voter recorded
ExpireTallyOnly(room, t) ==
    [room EXCEPT !.skipCounts[t.dir] = Max(@ - 1, 0)]

\* the room object once the expiry callback of timer t ran on it
Expire(room, t) ==
    [room EXCEPT !.skipUsers = @ \ {t.sock},
                 !.skipCounts[t.dir] = Max(@ - 1, 0)]

\* the setTimeout callback of skip_request; equal delays fire in the order
\* they were scheduled
Expiry ==
    /\ timers # <<>>
    /\ LET t == Head(timers) IN
       /\ heap' = Collect([heap EXCEPT ![t.room] = Expire(@, t)],
                           rooms, Tail(timers))
       /\ history' = CollectHistory(history, rooms, Tail(timers))
       /\ out' = <<Emit("skip_counts_update", group[t.roomId],
                        <<Expire(heap[t.room], t).skipCounts>>)>>
       /\ last' = Event("expiry", t.sock, t.roomId, <<t.dir>>)
    /\ timers' = Tail(timers)
    /\ UNCHANGED <<rooms, sockets, nextSocket, group>>

\* the first registry entry whose room has s among its users (0: none)
FirstRoomOf(s) ==
    IF \E i \in 1..Len(rooms) : MapHas(heap[rooms[i].obj].users, s)
    THEN CHOOSE i \in 1..Len(rooms) :
            /\ MapHas(heap[rooms[i].obj].users, s)
            /\ \A j \in 1..(i - 1) : ~MapHas(heap[rooms[j].obj].users, s)
    ELSE 0

\* the loop shared by the disconnect and disconnect_button handlers, run for
\* socket s with the broadcast groups g as they stand when the handler runs
Leave(s, g) ==
    LET i == FirstRoomOf(s) IN
    IF i = 0
    THEN /\ out' = <<>>
         /\ group' = g
         /\ UNCHANGED <<rooms, heap, history>>
    ELSE LET r == rooms[i].id
             o == rooms[i].obj
             room == [heap[o] EXCEPT !.users = MapDelete(@, s)]
         IN
         IF IsHost(room, s)
         THEN /\ rooms' = MapDelete(rooms, r)
              /\ heap' = Collect([heap EXCEPT ![o] = room], rooms', timers)
              /\ history' = CollectHistory(history, rooms', timers)
              /\ out' = <<Emit("room_closed", g[r], <<>>)>>
              /\ group' = [g EXCEPT ![r] = {}]
         ELSE /\ heap' = [heap EXCEPT ![o] = room]
              /\ out' = <<Emit("user_list_update", g[r], <<UserList(room)>>)>>
              /\ group' = g
              /\ UNCHANGED <<rooms, history>>

\* socket.on("disconnect"): the transport has taken the socket out of every
\* broadcast group before the handler runs
Disconnect(s) ==
    /\ last' = Event("disconnect", s, "-", <<>>)
    /\ sockets' = sockets \ {s}
    /\ Leave(s, [r \in RoomIds |-> group[r] \ {s}])
    /\ UNCHANGED <<nextSocket, timers>>

\* socket.on("disconnect_button"): the socket stays connected
DisconnectButton(s) ==
    /\ last' = Event("disconnect_button", s, "-", <<>>)
    /\ Leave(s, group)
    /\ UNCHANGED <<sockets, nextSocket, timers>>

\* the one-character ellipsis U+2026
Ellipsis == "U+2026"
ChatLimit == 10
Anonymous == "anonymous"

\* a cut that leaves the marker out
TruncateBare(message) == Slice(message, 0, ChatLimit)

\* message.length > 10 ? message.slice(0, 10) + ellipsis : message
Truncate(message) ==
    IF Len(message) > ChatLimit
    THEN Slice(message, 0, ChatLimit) \o <<Ellipsis>>
    ELSE message

\* socket.on("chat_message"); a message is the sequence of its code units
ChatMessage(s, r, message) ==
    LET o == RoomsGet(r) IN
    /\ last' = Event("chat_message", s, r, <<message>>)
    /\ out' = IF o = 0 THEN <<>>
              ELSE <<Emit("chat_message", group[r],
                          <<NicknameOf(heap[o], s, Anonymous),
                            Truncate(message)>>)>>
    /\ UNCHANGED <<rooms, heap, history, sockets, nextSocket, group, timers>>

\* chat texts of 0, 10, 11 and 12 code units
Text(n) == [i \in 1..n |-> IF i % 2 = 1 THEN "a" ELSE "b"]
Messages == {Text(0), Text(10), Text(11), Text(12)}
Pages == {1, 2}

\* ------------------------------------------------------------ the program
Next ==
    \/ Connection
    \/ Expiry
    \/ \E s \in sockets : Disconnect(s)
    \/ \E s \in sockets : DisconnectButton(s)
    \/ \E s \in sockets, page \in Pages : GetRoomList(s, page)
    \/ \E s \in sockets, r \in RoomIds, v \in VideoIds, p \in CreatePasswords :
          CreateRoom(s, r, v, p)
    \/ \E s \in sockets, r \in RoomIds, n \in Nicknames, p \in JoinPasswords :
          JoinRoom(s, r, n, p)
    \/ \E s \in sockets, r \in RoomIds : GetRoomInfo(s, r)
    \/ \E s \in sockets, r \in RoomIds, t \in TimeInputs :
          HostCurrentTimeUpdate(s, r, t)
    \/ \E s \in sockets, r \in RoomIds : VideoPlay(s, r)
    \/ \E s \in sockets, r \in RoomIds : VideoPause(s, r)
    \/ \E s \in sockets, r \in RoomIds, t \in TimeInputs : VideoSeek(s, r, t)
    \/ \E s \in sockets, r \in RoomIds, v \in VideoIds : ChangeVideo(s, r, v)
    \/ \E s \in sockets, r \in RoomIds, v \in VideoIds : AddRecommendVideo(s, r, v)
    \/ \E s \in sockets, r \in RoomIds : VideoEnded(s, r)
    \/ \E s \in sockets, r \in RoomIds : BoreVote(s, r)
    \/ \E s \in sockets, r \in RoomIds, d \in Directions : SkipRequest(s, r, d)
    \/ \E s \in sockets, r \in RoomIds, m \in Messages : ChatMessage(s, r, m)

Spec == Init /\ [][Next]_vars

\* The specifications below run the same handlers on part of their inputs,
\* one part of the room state at a time.

\* the transport hands out the first two socket ids only
ConnectionOfTwo == SocketIds[nextSocket] \in {"s1", "s2"} /\ Connection

\* room r1 is created once, by the first socket
CreateOnce ==
    heap = <<>> /\ "s1" \in sockets /\ CreateRoom("s1", "r1", "v1", NoPassword)

\* ------------------------------------------------- skip votes of one room
\* Three sockets around room r1: joins, skip votes, their expiry, and the
\* host's change_video.
NextSkip ==
    \/ Connection
    \/ Expiry
    \/ CreateOnce
    \/ \E s \in sockets : JoinRoom(s, "r1", "n1", NoPassword)
    \/ \E s \in sockets : ChangeVideo(s, "r1", "v2")
    \/ \E s \in sockets, d \in Directions : SkipRequest(s, "r1", d)

SpecSkip == Init /\ [][NextSkip]_vars

\* The same without change_video: the quorum rule of skip_request alone.
NextQuorum ==
    \/ Connection
    \/ Expiry
    \/ CreateOnce
    \/ \E s \in sockets : JoinRoom(s, "r1", "n1", NoPassword)
    \/ \E s \in sockets, d \in Directions : SkipRequest(s, "r1", d)

SpecQuorum == Init /\ [][NextQuorum]_vars

\* ------------------------------------------------------ playback of a room
\* The host s1 and one other socket in room r1: every host-only command from
\* either of them, with queue entries and bore votes around.
NextPlayback ==
    \/ ConnectionOfTwo
    \/ CreateOnce
    \/ \E s \in sockets : JoinRoom(s, "r1", "n1", NoPassword)
    \/ \E s \in sockets : HostCurrentTimeUpdate(s, "r1", 5)
    \/ \E s \in sockets : VideoPlay(s, "r1")
    \/ \E s \in sockets : VideoPause(s, "r1")
    \/ \E s \in sockets, t \in TimeInputs : VideoSeek(s, "r1", t)
    \/ \E s \in sockets : ChangeVideo(s, "r1", "v2")
    \/ \E s \in sockets : VideoEnded(s, "r1")
    \/ \E s \in sockets : AddRecommendVideo(s, "r1", "v1")
    \/ \E s \in sockets : BoreVote(s, "r1")

SpecPlayback == Init /\ [][NextPlayback]_vars

\* -------------------------------------------------- recommendation queue
\* Two sockets, room r1 created (and created again) by either: enqueues and
\* the two consumers of the queue, video_ended and the bore-vote quorum.
NextQueue ==
    \/ ConnectionOfTwo
    \/ \E s \in sockets : CreateRoom(s, "r1", "v1", NoPassword)
    \/ \E s \in sockets : JoinRoom(s, "r1", "n1", NoPassword)
    \/ \E s \in sockets, v \in VideoIds : AddRecommendVideo(s, "r1", v)
    \/ \E s \in sockets : VideoEnded(s, "r1")
    \/ \E s \in sockets : BoreVote(s, "r1")

SpecQueue == Init /\ [][NextQueue]_vars

\* ------------------------------------------------------------- room lifecycle
\* Two sockets, two room ids: rooms are created, joined and left.
NextLifecycle ==
    \/ ConnectionOfTwo
    \/ \E s \in sockets : Disconnect(s)
    \/ \E s \in sockets : DisconnectButton(s)
    \/ \E s \in sockets, r \in RoomIds : CreateRoom(s, r, "v1", NoPassword)
    \/ \E s \in sockets, r \in RoomIds : JoinRoom(s, r, "n1", NoPassword)

SpecLifecycle == Init /\ [][NextLifecycle]_vars

\* ------------------------------------------------------- locked rooms
\* Two sockets, room r1 created with or without a password by either of
\* them, joined with the right, a wrong or no password.
NextJoin ==
    \/ ConnectionOfTwo
    \/ \E s \in sockets, p \in CreatePasswords : CreateRoom(s, "r1", "v1", p)
    \/ \E s \in sockets, p \in JoinPasswords : JoinRoom(s, "r1", "n1", p)
    \/ \E s \in sockets : GetRoomInfo(s, "r1")

SpecJoin == Init /\ [][NextJoin]_vars

\* ------------------------------------------------------------ room list
\* Two sockets, two room ids created in any order (and created again),
\* hosts joining or not, and the list asked for page by page.
NextList ==
    \/ ConnectionOfTwo
    \/ \E s \in sockets, r \in RoomIds : CreateRoom(s, r, "v1", NoPassword)
    \/ \E r \in RoomIds : "s1" \in sockets /\ JoinRoom("s1", r, "n1", NoPassword)
    \/ \E page \in Pages : "s2" \in sockets /\ GetRoomList("s2", page)

SpecList == Init /\ [][NextList]_vars

\* ------------------------------------------------------------------ chat
\* Three sockets around room r1: members, a member who left with the leave
\* button, and outsiders send texts of 0, 10, 11 and 12 code units.
NextChat ==
    \/ Connection
    \/ CreateOnce
    \/ \E s \in sockets : JoinRoom(s, "r1", "n1", NoPassword)
    \/ \E s \in sockets : DisconnectButton(s)
    \/ \E s \in sockets, m \in Messages : ChatMessage(s, "r1", m)

SpecChat == Init /\ [][NextChat]_vars

\* -------------------------------------------- skip votes and auto-advance
\* Three sockets around room r1: forward skip votes and their expiry, with
\* the queue filled and consumed by video_ended.
NextAdvance ==
    \/ Connection
    \/ Expiry
    \/ CreateOnce
    \/ \E s \in sockets : JoinRoom(s, "r1", "n1", NoPassword)
    \/ \E s \in sockets : SkipRequest(s, "r1", "forward")
    \/ \E s \in sockets : AddRecommendVideo(s, "r1", "v2")
    \/ \E s \in sockets : VideoEnded(s, "r1")

SpecAdvance == Init /\ [][NextAdvance]_vars

\* ------------------------------------------- timers that outlive their room
\* Three sockets around room id r1, which its host s1 creates, leaves by
\* disconnecting, or creates a second time while forward skip votes are
\* pending.
CreateTwice ==
    Len(heap) < 2 /\ "s1" \in sockets /\ CreateRoom("s1", "r1", "v1", NoPassword)

NextStale ==
    \/ Connection
    \/ Expiry
    \/ CreateTwice
    \/ \E s \in sockets : JoinRoom(s, "r1", "n1", NoPassword)
    \/ \E s \in sockets : SkipRequest(s, "r1", "forward")
    \/ "s1" \in sockets /\ Disconnect("s1")

SpecStale == Init /\ [][NextStale]_vars

\* --------------------------------------------- skip votes that all expire
\* Three sockets around room r1: forward votes, quorum resets and the host's
\* change_video, with every scheduled timer firing in the end (setTimeout
\* callbacks are run by the event loop once their delay is over).
NextSkipForward ==
    \/ Connection
    \/ Expiry
    \/ CreateOnce
    \/ \E s \in sockets : JoinRoom(s, "r1", "n1", NoPassword)
    \/ \E s \in sockets : ChangeVideo(s, "r1", "v2")
    \/ \E s \in sockets : SkipRequest(s, "r1", "forward")

SpecSkipFair == Init /\ [][NextSkipForward]_vars /\ WF_vars(Expiry)

\* ------------------------------------------------- voters and participants
\* Three sockets around room r1: votes of both kinds from sockets that
\* joined, never joined, or disconnect after voting.
NextVoters ==
    \/ Connection
    \/ Expiry
    \/ CreateOnce
    \/ \E s \in sockets : JoinRoom(s, "r1", "n1", NoPassword)
    \/ \E s \in sockets : BoreVote(s, "r1")
    \/ \E s \in sockets : SkipRequest(s, "r1", "forward")
    \/ \E s \in sockets : Disconnect(s)

SpecVoters == Init /\ [][NextVoters]_vars

\* ------------------------------------------------------------------ claims
\* the registry's room objects
Registered == {rooms[i].obj : i \in 1..Len(rooms)}

HostOnlyCommands ==
    {"host_current_time_update", "video_play", "video_pause", "video_seek",
     "change_video", "video_ended"}

PlaybackEvents == {"video_play", "video_pause", "video_seek", "video_changed"}

Emitted(o, name) == \E i \in 1..Len(o) : o[i].ev = name

\* C1: in every reachable state every room of the registry has
\* currentTime >= 0, whatever seeks, time updates, video changes and skip
\* votes came before.
C1_CurrentTimeNeverNegative ==
    \A o \in Registered : heap[o].currentTime >= 0

\* C2: a host-only command from a socket that is not the room's host (or for
\* a room that does not exist) leaves registry, rooms, votes, queue,
\* participants, groups and timers as they were and broadcasts no playback
\* event.
C2_NonHostCommandIgnored ==
    [][(/\ last'.type \in HostOnlyCommands
        /\ \/ RoomsGet(last'.roomId) = 0
           \/ heap[RoomsGet(last'.roomId)].hostId # last'.sock)
       => /\ rooms' = rooms
          /\ heap' = heap
          /\ history' = history
          /\ group' = group
          /\ timers' = timers
          /\ \A i \in 1..Len(out') : out'[i].ev \notin PlaybackEvents]_vars

\* a joined socket that is not the host has just sent video_ended to a room
\* with a queued video and a bore vote: nothing was consumed or cleared
C2_Witness ==
    /\ last.type = "video_ended"
    /\ RoomsGet(last.roomId) # 0
    /\ LET room == heap[RoomsGet(last.roomId)] IN
       /\ room.hostId # last.sock
       /\ MapHas(room.users, last.sock)
       /\ room.recommendQueue # <<>>
       /\ room.boreVotes # {}
       /\ out = <<>>

\* a socket's skip vote in room object o is pending: cast, not yet expired,
\* not cleared by a reset
HoldsSkipVote(o, s) ==
    \E k \in 1..Len(timers) :
        timers[k].room = o /\ timers[k].sock = s /\ timers[k].live

\* C3: a skip_request from a socket that holds a pending skip vote in the
\* room changes neither tally nor the voter set and schedules no expiry; a
\* bore_vote from a socket that already voted in this epoch changes nothing.
C3_SecondVoteIgnored ==
    [][/\ (/\ last'.type = "skip_request"
           /\ RoomsGet(last'.roomId) # 0
           /\ HoldsSkipVote(RoomsGet(last'.roomId), last'.sock))
          => /\ heap'[RoomsGet(last'.roomId)].skipCounts
                    = heap[RoomsGet(last'.roomId)].skipCounts
             /\ heap'[RoomsGet(last'.roomId)].skipUsers
                    = heap[RoomsGet(last'.roomId)].skipUsers
             /\ timers' = timers
       /\ (/\ last'.type = "bore_vote"
           /\ RoomsGet(last'.roomId) # 0
           /\ last'.sock \in heap[RoomsGet(last'.roomId)].boreVotes)
          => heap' = heap]_vars

\* C4: an accepted skip_request for direction d moves currentTime by +10
\* (forward) or -10 (backward), floored at 0, and broadcasts it as video_seek
\* to the whole room exactly when d's tally after the increment is at least
\* half the participant count; both tallies are then 0 and the voter set is
\* empty.
C4_SkipQuorumEffect ==
    [][(/\ last'.type = "skip_request"
        /\ RoomsGet(last'.roomId) # 0
        /\ last'.sock \notin heap[RoomsGet(last'.roomId)].skipUsers)
       => LET o == RoomsGet(last'.roomId)
              d == last'.arg[1]
              tally == heap[o].skipCounts[d] + 1
              before == heap[o].currentTime
              target == IF d = "forward" THEN before + 10
                        ELSE IF before >= 10 THEN before - 10 ELSE 0
          IN IF 2 * tally >= Len(heap[o].users)
             THEN /\ heap'[o].currentTime = target
                  /\ out'[1] = Emit("video_seek", group[last'.roomId], <<target>>)
                  /\ heap'[o].skipCounts = [forward |-> 0, backward |-> 0]
                  /\ heap'[o].skipUsers = {}
             ELSE /\ heap'[o].currentTime = before
                  /\ ~Emitted(out', "video_seek")
                  /\ heap'[o].skipCounts[d] = tally
                  /\ last'.sock \in heap'[o].skipUsers]_vars

\* the second of two votes in a room of three has just reached the quorum
C4_Witness ==
    /\ last.type = "skip_request"
    /\ RoomsGet(last.roomId) # 0
    /\ LET room == heap[RoomsGet(last.roomId)] IN
       /\ Len(room.users) = 3
       /\ Len(out) = 2
       /\ out[1].ev = "video_seek"
       /\ Cardinality(out[1].to) = 3
       /\ room.skipUsers = {}
       /\ Len(timers) = 2

\* C5: when the expiry of a pending vote (not expired, not cleared by a
\* reset) fires, its direction's tally goes down by exactly one, stays >= 0,
\* and its voter leaves the voter set.
C5_ExpiryTakesOneVoteBack ==
    [][(last'.type = "expiry" /\ Head(timers).live)
       => LET t == Head(timers) IN
          /\ heap'[t.room].skipCounts[t.dir] = heap[t.room].skipCounts[t.dir] - 1
          /\ heap'[t.room].skipCounts[t.dir] >= 0
          /\ t.sock \notin heap'[t.room].skipUsers]_vars

\* C6: in every room the skip tallies count the recorded voters.  The room
\* keeps one voter set for both directions, so the two tallies together
\* equal its size.
C6_TallyCountsVoters ==
    \A o \in Registered :
        heap[o].skipCounts.forward + heap[o].skipCounts.backward
            = Cardinality(heap[o].skipUsers)

\* C7: the expiry of a vote that a reset (quorum or change_video) cleared is
\* a no-op on the room: no tally changes, no voter is removed.
C7_StaleExpiryIsNoOp ==
    [][(last'.type = "expiry" /\ ~Head(timers).live)
       => LET t == Head(timers) IN
          /\ heap'[t.room].skipCounts = heap[t.room].skipCounts
          /\ heap'[t.room].skipUsers = heap[t.room].skipUsers]_vars

\* C8: for every room the ids taken from its queue by auto-advance, followed
\* by the ids still queued, are the ids enqueued, in order: consumption is
\* from the front, each id once; and the id just taken is the one played and
\* announced.
C8_QueueIsFifo ==
    /\ \A o \in 1..Len(heap) :
          history[o].enq = history[o].deq \o heap[o].recommendQueue
    /\ (last.type \in {"video_ended", "bore_vote"} /\ Emitted(out, "video_changed"))
       => LET o == RoomsGet(last.roomId)
              i == CHOOSE i \in 1..Len(out) : out[i].ev = "video_changed"
          IN /\ history[o].deq # <<>>
             /\ heap[o].videoId = history[o].deq[Len(history[o].deq)]
             /\ out[i].data[1] = heap[o].videoId

\* two different ids were enqueued and both were taken, the second one by a
\* bore-vote quorum
C8_Witness ==
    /\ last.type = "bore_vote"
    /\ Emitted(out, "video_changed")
    /\ RoomsGet(last.roomId) # 0
    /\ LET h == history[RoomsGet(last.roomId)] IN
       /\ Len(h.deq) = 2
       /\ h.deq[1] # h.deq[2]
       /\ h.enq = h.deq

\* C9: a disconnect that removes the host's participant entry removes the
\* room from the registry in the same step, delivers room_closed to every
\* other member of the room's group and empties the group; join_room for an
\* id that is not in the registry answers not-found and changes nothing; and
\* only create_room brings an id back.
C9_HostDisconnectClosesRoom ==
    [][/\ (/\ last'.type = "disconnect"
           /\ FirstRoomOf(last'.sock) # 0
           /\ heap[rooms[FirstRoomOf(last'.sock)].obj].hostId = last'.sock)
          => LET r == rooms[FirstRoomOf(last'.sock)].id IN
             /\ ~MapHas(rooms', r)
             /\ out' = <<Emit("room_closed", group[r] \ {last'.sock}, <<>>)>>
             /\ group'[r] = {}
       /\ (last'.type = "join_room" /\ ~MapHas(rooms, last'.roomId))
          => /\ out' = <<Emit("error", {last'.sock}, <<"not_found">>)>>
             /\ rooms' = rooms /\ heap' = heap /\ group' = group
       /\ \A r \in RoomIds :
             (~MapHas(rooms, r) /\ MapHas(rooms', r))
             => (last'.type = "create_room" /\ last'.roomId = r)]_vars

\* the host has just disconnected from a room with another member in it:
\* the member got room_closed and the registry is empty
C9_Witness ==
    /\ last.type = "disconnect"
    /\ Len(out) = 1
    /\ out[1].ev = "room_closed"
    /\ out[1].to # {}
    /\ rooms = <<>>
    /\ \A r \in RoomIds : group[r] = {}

\* C10: in every reachable state the host of every room in the registry is
\* a connected socket.
C10_HostOfEveryRoomConnected ==
    \A o \in Registered : heap[o].hostId \in sockets

\* the requests that name a room
RoomRequests ==
    {"join_room", "get_room_info", "host_current_time_update", "video_play",
     "video_pause", "video_seek", "change_video", "add_recommend_video",
     "video_ended", "bore_vote", "skip_request", "chat_message"}

\* C11: join_room on a locked room: a socket that is not the host and whose
\* password is absent or different gets error and the participants stay as
\* they were; with the matching password, and for the host with any
\* password, the requester is among the participants afterwards and is sent
\* room_data with isLocked = true.
C11_LockedRoomJoin ==
    [][(/\ last'.type = "join_room"
        /\ RoomsGet(last'.roomId) # 0
        /\ heap[RoomsGet(last'.roomId)].password # Null)
       => LET o == RoomsGet(last'.roomId)
              s == last'.sock
              p == last'.arg[2]
          IN IF s = heap[o].hostId \/ p = heap[o].password
             THEN /\ \E i \in 1..Len(heap'[o].users) : heap'[o].users[i].id = s
                  /\ out'[1].ev = "room_data"
                  /\ out'[1].to = {s}
                  /\ out'[1].data[8] = TRUE
             ELSE /\ out' = <<Emit("error", {s}, <<"wrong_password">>)>>
                  /\ heap'[o].users = heap[o].users
                  /\ group' = group]_vars

\* a socket that is not the host has just joined a locked room with the
\* matching password
C11_Witness ==
    /\ last.type = "join_room"
    /\ RoomsGet(last.roomId) # 0
    /\ LET room == heap[RoomsGet(last.roomId)] IN
       /\ room.password = "pw"
       /\ last.arg[2] = "pw"
       /\ room.hostId # last.sock
       /\ MapHas(room.users, last.sock)
       /\ out[1].ev = "room_data"
       /\ out[1].data[8] = TRUE

\* C12: a request that names a room id the registry does not hold answers
\* the requester with an error event and changes no room state.
C12_UnknownRoomIsAnError ==
    [][(last'.type \in RoomRequests /\ RoomsGet(last'.roomId) = 0)
       => /\ Len(out') = 1
          /\ out'[1].ev = "error"
          /\ out'[1].to = {last'.sock}
          /\ rooms' = rooms /\ heap' = heap /\ group' = group
          /\ timers' = timers]_vars

\* the room object the i-th entry of a room_list payload stands for
ListedObj(list, i) == rooms[IndexOf(rooms, list[i].roomId)].obj

\* C13: room_list holds the rooms most recently created first (room
\* objects are numbered in creation order), positions (page-1)*10 up to
\* page*10, and hasNextPage says whether page*10 < number of rooms.
C13_RoomListNewestFirst ==
    last.type = "get_room_list"
    => LET page == last.arg[1]
           list == out[1].data[1].rooms
           from == (page - 1) * 10
           size == IF Len(rooms) <= from THEN 0
                   ELSE IF Len(rooms) - from >= 10 THEN 10
                   ELSE Len(rooms) - from
       IN /\ Len(list) = size
          /\ \A i \in 1..Len(list) : MapHas(rooms, list[i].roomId)
          /\ \A i, j \in 1..Len(list) :
                i < j => ListedObj(list, i) > ListedObj(list, j)
          /\ out[1].data[1].hasNextPage = (page * 10 < Len(rooms))

\* C14: a chat_message for an existing room is delivered once, to the whole
\* group of the room, which holds every participant (the sender too when it
\* is one); a text of more than 10 code units arrives as its first 10
\* followed by one ellipsis, a text of at most 10 arrives as sent.
C14_ChatTruncation ==
    (last.type = "chat_message" /\ RoomsGet(last.roomId) # 0)
    => LET room == heap[RoomsGet(last.roomId)]
           m == last.arg[1]
       IN /\ Len(out) = 1
          /\ out[1].ev = "chat_message"
          /\ out[1].to = group[last.roomId]
          /\ \A i \in 1..Len(room.users) : room.users[i].id \in out[1].to
          /\ out[1].data[2] = IF Len(m) > 10
                              THEN SubSeq(m, 1, 10) \o <<Ellipsis>>
                              ELSE m

\* a participant has just sent 12 code units to a room of three and all
\* three got 10 and the ellipsis
C14_Witness ==
    /\ last.type = "chat_message"
    /\ RoomsGet(last.roomId) # 0
    /\ Len(last.arg[1]) = 12
    /\ Len(heap[RoomsGet(last.roomId)].users) = 3
    /\ MapHas(heap[RoomsGet(last.roomId)].users, last.sock)
    /\ Cardinality(out[1].to) = 3
    /\ last.sock \in out[1].to
    /\ Len(out[1].data[2]) = 11
    /\ out[1].data[2][11] = Ellipsis

\* C15: after the host's change_video the room has the new video at time 0,
\* both skip tallies 0, no skip voter and no bore voter, and video_changed
\* with that state went to the whole group of the room, the host included.
C15_ChangeVideoResets ==
    [][(/\ last'.type = "change_video"
        /\ RoomsGet(last'.roomId) # 0
        /\ heap[RoomsGet(last'.roomId)].hostId = last'.sock)
       => LET o == RoomsGet(last'.roomId) IN
          /\ heap'[o].videoId = last'.arg[1]
          /\ heap'[o].currentTime = 0
          /\ heap'[o].skipCounts = [forward |-> 0, backward |-> 0]
          /\ heap'[o].skipUsers = {}
          /\ heap'[o].boreVotes = {}
          /\ Len(out') = 1
          /\ out'[1].ev = "video_changed"
          /\ out'[1].data[1] = last'.arg[1]
          /\ out'[1].to = group[last'.roomId]
          /\ last'.sock \in out'[1].to]_vars

\* C16: the host's video_ended with a queued video takes the front id and
\* leaves the room as change_video to that id would (playing, time 0, skip
\* tallies 0, no skip voter), with nothing queued only isPlaying becomes
\* false; either way no bore voter is left and bore_vote_update 0 is the
\* last broadcast.
C16_VideoEndedAdvances ==
    [][(/\ last'.type = "video_ended"
        /\ RoomsGet(last'.roomId) # 0
        /\ heap[RoomsGet(last'.roomId)].hostId = last'.sock)
       => LET o == RoomsGet(last'.roomId)
              q == heap[o].recommendQueue
          IN /\ IF q # <<>>
                THEN heap'[o] = [heap[o] EXCEPT !.videoId = q[1],
                                                !.recommendQueue = Tail(q),
                                                !.currentTime = 0,
                                                !.isPlaying = TRUE,
                                                !.skipCounts = [forward |-> 0,
                                                                backward |-> 0],
                                                !.skipUsers = {},
                                                !.boreVotes = {}]
                ELSE heap'[o] = [heap[o] EXCEPT !.isPlaying = FALSE,
                                                !.boreVotes = {}]
             /\ out'[Len(out')] = Emit("bore_vote_update", group[last'.roomId],
                                       <<0>>)]_vars

\* C17: an accepted bore_vote advances (front of the queue played, or
\* isPlaying false when nothing is queued) exactly when the voters, the new
\* one included, are more than half the participants; the voter set is then
\* empty; otherwise the vote is recorded, no timer is set, and the recorded
\* votes of a room only go away by video_ended or a bore_vote.
C17_BoreQuorumEffect ==
    [][/\ (/\ last'.type = "bore_vote"
           /\ RoomsGet(last'.roomId) # 0
           /\ last'.sock \notin heap[RoomsGet(last'.roomId)].boreVotes)
          => LET o == RoomsGet(last'.roomId)
                 q == heap[o].recommendQueue
                 n == Cardinality(heap[o].boreVotes \cup {last'.sock})
             IN /\ timers' = timers
                /\ IF 2 * n > Len(heap[o].users)
                   THEN /\ heap'[o].boreVotes = {}
                        /\ IF q # <<>>
                           THEN /\ heap'[o].videoId = q[1]
                                /\ heap'[o].recommendQueue = Tail(q)
                                /\ heap'[o].currentTime = 0
                                /\ heap'[o].isPlaying
                           ELSE /\ ~heap'[o].isPlaying
                                /\ heap'[o].videoId = heap[o].videoId
                   ELSE heap'[o] = [heap[o] EXCEPT
                                       !.boreVotes = @ \cup {last'.sock}]
       /\ \A r \in RoomIds :
             (/\ RoomsGet(r) # 0
              /\ RoomsGet(r)' = RoomsGet(r)
              /\ ~(heap[RoomsGet(r)].boreVotes \subseteq heap'[RoomsGet(r)].boreVotes))
             => last'.type \in {"video_ended", "bore_vote"}]_vars

\* one of two participants had voted, the second vote has just passed the
\* quorum and the queued video plays
C17_Witness ==
    /\ last.type = "bore_vote"
    /\ RoomsGet(last.roomId) # 0
    /\ LET room == heap[RoomsGet(last.roomId)] IN
       /\ Len(room.users) = 2
       /\ Len(out) = 4
       /\ out[1] = Emit("bore_vote_update", group[last.roomId], <<2>>)
       /\ out[2].ev = "video_changed"
       /\ room.boreVotes = {}
       /\ room.isPlaying

\* C18: disconnect_button by a participant ends as a network disconnect of
\* that socket would: the same registry and room, the same broadcast to the
\* same sockets, and the same groups, which a disconnect leaves without the
\* socket.
C18_LeaveButtonLikeDisconnect ==
    [][(last'.type = "disconnect_button" /\ FirstRoomOf(last'.sock) # 0)
       => LET s == last'.sock
              g == [r \in RoomIds |-> group[r] \ {s}]
              r == rooms[FirstRoomOf(s)].id
              o == rooms[FirstRoomOf(s)].obj
              users == MapDelete(heap[o].users, s)
          IN IF heap[o].hostId = s
             THEN /\ rooms' = MapDelete(rooms, r)
                  /\ out' = <<Emit("room_closed", g[r], <<>>)>>
                  /\ group' = [g EXCEPT ![r] = {}]
             ELSE /\ rooms' = rooms
                  /\ heap'[o].users = users
                  /\ out' = <<Emit("user_list_update", g[r],
                                   <<[i \in 1..Len(users) |-> users[i].nick]>>)>>
                  /\ group' = g]_vars

\* C19: while a room id stays in the registry its host is the same socket,
\* and a create_room for that id leaves the room as it was.
C19_HostNeverChanges ==
    [][\A r \in RoomIds :
          (MapHas(rooms, r) /\ MapHas(rooms', r))
          => /\ heap'[RoomsGet(r)'].hostId = heap[RoomsGet(r)].hostId
             /\ (last'.type = "create_room" /\ last'.roomId = r)
                => heap'[RoomsGet(r)'] = heap[RoomsGet(r)]]_vars

\* C20: the expiry of a vote whose room object is no longer the one the
\* registry holds under its id (the room was deleted, or the id was created
\* again) changes no registry room and delivers skip_counts_update to
\* nobody.
C20_OrphanExpiryIsSilent ==
    [][(last'.type = "expiry" /\ Head(timers).room # RoomsGet(Head(timers).roomId))
       => /\ \A o \in Registered : heap'[o] = heap[o]
          /\ \A i \in 1..Len(out') :
                out'[i].ev = "skip_counts_update" => out'[i].to = {}]_vars

\* the sockets among a room's participants
Participants(room) == {room.users[i].id : i \in 1..Len(room.users)}

\* C21: with every scheduled expiry firing in the end, a socket recorded in
\* the skip voter set of the room is not recorded there for ever: its own
\* expiry or a reset takes it out, and it can vote again.
C21_VoterEventuallyFree ==
    \A s \in {SocketIds[i] : i \in 1..Len(SocketIds)} :
        (RoomsGet("r1") # 0 /\ s \in heap[RoomsGet("r1")].skipUsers)
        ~> (RoomsGet("r1") # 0 /\ s \notin heap[RoomsGet("r1")].skipUsers)

\* in a room of three, after a change_video, the last pending expiry has
\* fired: its voter is not recorded and no vote is pending
C21_Witness ==
    /\ last.type = "expiry"
    /\ RoomsGet(last.roomId) # 0
    /\ LET room == heap[RoomsGet(last.roomId)] IN
       /\ Len(room.users) = 3
       /\ room.videoId = "v2"
       /\ last.sock \in Participants(room)
       /\ last.sock \notin room.skipUsers
       /\ timers = <<>>

\* C22: in every room of the registry every recorded skip voter and every
\* recorded bore voter is a participant, and no tally is above the number of
\* participants.
C22_VotersAreParticipants ==
    \A o \in Registered :
        /\ heap[o].skipUsers \subseteq Participants(heap[o])
        /\ heap[o].boreVotes \subseteq Participants(heap[o])
        /\ Cardinality(heap[o].boreVotes) <= Len(heap[o].users)
        /\ heap[o].skipCounts.forward <= Len(heap[o].users)
        /\ heap[o].skipCounts.backward <= Len(heap[o].users)
====
